---- MODULE Spec2Model ----
(***************************************************************************)
(* haplogroup_visualization.py as a state machine.                         *)
(*                                                                         *)
(* The script is one straight-line batch run: argument checks, spreadsheet *)
(* load, cleaning, the Y / mt split, era binning, k-means, the two cluster *)
(* loops and the save of map.html.  pc is the position in the script; the  *)
(* other variables are the script's module-level names.                    *)
(*                                                                         *)
(* Text is a sequence of symbols.  A symbol is one character, except for   *)
(* the fixed chunks no operation looks inside (a file name, a flag name, a *)
(* country name).  A pandas row keeps its index label in the field idx.    *)
(***************************************************************************)
EXTENDS Integers, Sequences, FiniteSets, TLC

VARIABLES
    pc,                    \* position in the script
    argv,                  \* sys.argv[1:]
    xlsx,                  \* the rows of the spreadsheet on disk
    annotations,           \* the DataFrame of line 137 and its later versions
    args,                  \* the argparse namespace
    annotations_Y,
    annotations_mt,
    lat_long_locations_Y,  \* the distinct (Lat, Long) pairs, in row order
    lat_long_locations_mt,
    kmeans_Y,              \* labels_ of the fitted model, <<>> before the fit
    kmeans_mt,
    it,                    \* the next value of the running range() iterator
    cluster_id,
    subset,
    total_indivs,
    bp_ranges,
    cluster_range,
    cluster_countries,
    fg_Y,                  \* the markers added to each feature group
    fg_mt,
    diag,                  \* the diagnostic printed, "" when none
    exit_status,           \* -1 while running, then the process's status
    error,                 \* the uncaught exception, "" when none
    map_html,              \* TRUE once m.save("map.html") has run
    probe                  \* a code string under the truncation rule alone

vars == <<pc, argv, xlsx, annotations, args, annotations_Y, annotations_mt,
          lat_long_locations_Y, lat_long_locations_mt, kmeans_Y, kmeans_mt,
          it, cluster_id, subset, total_indivs, bp_ranges, cluster_range,
          cluster_countries, fg_Y, fg_mt, diag, exit_status, error, map_html,
          probe>>

(***************************************************************************)
(* Bounds of the model.                                                    *)
(***************************************************************************)
\* KMeans' labels_ are any cluster ids on the first MaxFree distinct
\* coordinates; the remaining coordinates are labelled by rank.
MaxFree == 1
\* Longest code string given to the truncation rule on its own.
MaxLen == 3

(***************************************************************************)
(* Text.                                                                   *)
(***************************************************************************)
Min(a, b) == IF a < b THEN a ELSE b

Digits == <<"0", "1", "2", "3", "4", "5", "6", "7", "8", "9">>

DigitValue(c) == (CHOOSE i \in 1..10 : Digits[i] = c) - 1

IsDigit(c) == \E i \in 1..10 : Digits[i] = c

\* Python's int(str) on the texts of the model: decimal digits only.
IsInt(s) == Len(s) > 0 /\ \A i \in 1..Len(s) : IsDigit(s[i])

RECURSIVE int(_)
int(s) == IF s = <<>> THEN 0
          ELSE 10 * int(SubSeq(s, 1, Len(s) - 1)) + DigitValue(s[Len(s)])

\* Python's s[:n]
Slice(s, n) == SubSeq(s, 1, Min(n, Len(s)))

\* Whether the text p occurs in s (re.search of a literal).
Contains(s, p) ==
    \E i \in 1..(Len(s) - Len(p) + 1) : SubSeq(s, i, i + Len(p) - 1) = p

\* str.split(sep) for a one-symbol separator.
RECURSIVE split(_, _)
split(s, sep) ==
    IF \A i \in 1..Len(s) : s[i] # sep THEN <<s>>
    ELSE LET k == CHOOSE i \in 1..Len(s) :
                      s[i] = sep /\ \A j \in 1..(i - 1) : s[j] # sep
         IN  <<SubSeq(s, 1, k - 1)>> \o split(SubSeq(s, k + 1, Len(s)), sep)

\* sep.join(parts)
RECURSIVE join(_, _)
join(parts, sep) ==
    IF parts = <<>> THEN <<>>
    ELSE IF Len(parts) = 1 THEN parts[1]
    ELSE parts[1] \o sep \o join(Tail(parts), sep)

Whitespace == {" ", "\t", "\n"}

RECURSIVE lstrip(_)
lstrip(s) == IF s # <<>> /\ Head(s) \in Whitespace THEN lstrip(Tail(s)) ELSE s

RECURSIVE rstrip(_)
rstrip(s) == IF s # <<>> /\ s[Len(s)] \in Whitespace
             THEN rstrip(SubSeq(s, 1, Len(s) - 1)) ELSE s

strip(s) == rstrip(lstrip(s))

\* pandas' unique(): the distinct values in order of first appearance.
RECURSIVE unique(_)
unique(s) ==
    IF s = <<>> THEN <<>>
    ELSE LET init == unique(SubSeq(s, 1, Len(s) - 1))
             x    == s[Len(s)]
         IN  IF \E i \in 1..Len(init) : init[i] = x THEN init
             ELSE Append(init, x)

\* A missing cell (float nan).
NaN == <<"float:nan">>

\* astype(str) of a cell.
astype_str(v) == IF v = NaN THEN <<"n", "a", "n">> ELSE v

RECURSIVE str(_)
\* Python's str(int)
str(n) == IF n < 0 THEN <<"-">> \o str(0 - n)
          ELSE IF n < 10 THEN <<Digits[n + 1]>>
          ELSE str(n \div 10) \o <<Digits[(n % 10) + 1]>>

(***************************************************************************)
(* Cells and rows.  A Lat / Long cell is <<"num", v>>, <<"dotdot", 0>> for *)
(* the text ".." or <<"nan", 0>> for an empty cell; v counts thousandths   *)
(* of a degree in the spreadsheet and hundredths after the rounding of     *)
(* line 255.                                                               *)
(***************************************************************************)
Num(v) == <<"num", v>>
DotDotCell == <<"dotdot", 0>>
NaNCell == <<"nan", 0>>

\* round(x, 2): the nearest hundredth, a tie going to the even one.
round2(v) ==
    LET q == v \div 10
        r == v % 10
    IN  IF r < 5 THEN q
        ELSE IF r > 5 THEN q + 1
        ELSE IF q % 2 = 0 THEN q ELSE q + 1

round_cell(c) == IF c[1] = "num" THEN Num(round2(c[2])) ELSE c

\* Line 227: the exact-match replacement table of country names.
replace_country(c) ==
    CASE c = <<"China ">> -> <<"China">>
      [] c = <<"Gernamy">> -> <<"Germany">>
      [] c = <<"Turkey ">> -> <<"Turkey">>
      [] c = <<"Federated States of Micronesia">> -> <<"Micronesia">>
      [] OTHER -> c

\* Lines 239-243: the calendar age of a row.
Age(bp) == IF bp >= 1950 THEN str(bp - 1949) \o <<" ", "B", "C">>
           ELSE str(1950 - bp) \o <<" ", "A", "D">>

\* DataFrame[mask] keeps the rows that satisfy a test, index labels included.
Filter(df, Test(_)) == SelectSeq(df, Test)

\* Lines 182-255: columns, countries, the BP = 0 filter, Age, coordinates.
modify(df) ==
    LET renamed(r) == [r EXCEPT !.Country = replace_country(r.Country)]
        ancient(r) == r.Mean_BP # 0
        withAge(r) == [idx |-> r.idx, Mean_BP |-> r.Mean_BP,
                       Country |-> r.Country, Lat |-> r.Lat, Long |-> r.Long,
                       Y_haplogroup |-> r.Y_haplogroup,
                       mtDNA_haplogroup |-> r.mtDNA_haplogroup,
                       Age |-> Age(r.Mean_BP)]
        located(r) == /\ r.Lat # DotDotCell
                      /\ r.Long # DotDotCell
                      /\ r.Lat # NaNCell
                      /\ r.Long # NaNCell
        rounded(r) == [r EXCEPT !.Lat = round_cell(r.Lat),
                                !.Long = round_cell(r.Long)]
        a1 == [i \in 1..Len(df) |-> renamed(df[i])]
        a2 == Filter(a1, ancient)
        a3 == [i \in 1..Len(a2) |-> withAge(a2[i])]
        a4 == Filter(a3, located)
    IN  [i \in 1..Len(a4) |-> rounded(a4[i])]

(***************************************************************************)
(* Haplogroup cleaning, lines 258-271.                                     *)
(***************************************************************************)
\* The alternatives of the pattern "n/a|na|NaN|not|Likely".
Placeholders ==
    { <<"n", "/", "a">>, <<"n", "a">>, <<"N", "a", "N">>,
      <<"n", "o", "t">>, <<"L", "i", "k", "e", "l", "y">> }

\* str.contains("n/a|na|NaN|not|Likely", regex=True)
contains_placeholder(s) == \E p \in Placeholders : Contains(s, p)

\* The character class [+\/\(\)'~@\-or\s] of lines 270-271.
CutChars == {"+", "/", "(", ")", "'", "~", "@", "-", "o", "r"} \cup Whitespace

\* How many symbols ".*" takes at the head of s: all up to a line break.
RECURSIVE dot_star(_)
dot_star(s) == IF s = <<>> \/ Head(s) = "\n" THEN 0 ELSE 1 + dot_star(Tail(s))

\* The rule, were only the first match deleted (re.sub with count=1).
truncate_first(s) ==
    IF \A i \in 1..Len(s) : s[i] \notin CutChars THEN s
    ELSE LET k == CHOOSE i \in 1..Len(s) :
                      s[i] \in CutChars
                      /\ \A j \in 1..(i - 1) : s[j] \notin CutChars
             rest == SubSeq(s, k + 1, Len(s))
         IN  SubSeq(s, 1, k - 1)
             \o SubSeq(rest, dot_star(rest) + 1, Len(rest))

\* str.replace(r"[+\/\(\)'~@\-or\s].*", "", regex=True): re.sub deletes
\* every match, left to right, each match a class character and what
\* follows it on its line.
RECURSIVE truncate(_)
truncate(s) ==
    IF s = <<>> THEN <<>>
    ELSE IF Head(s) \in CutChars
         THEN LET rest == Tail(s)
              IN  truncate(SubSeq(rest, dot_star(rest) + 1, Len(rest)))
         ELSE <<Head(s)>> \o truncate(Tail(s))

\* Lines 260-271 on the whole frame.
clean_haplogroups(df) ==
    LET asStr(r)  == [r EXCEPT !.Y_haplogroup = astype_str(r.Y_haplogroup),
                               !.mtDNA_haplogroup =
                                   astype_str(r.mtDNA_haplogroup)]
        keepY(r)  == ~contains_placeholder(r.Y_haplogroup)
        keepMt(r) == ~contains_placeholder(r.mtDNA_haplogroup)
        fullY(r)  == strip(r.Y_haplogroup) # <<>>
        fullMt(r) == strip(r.mtDNA_haplogroup) # <<>>
        cut(r)    == [r EXCEPT !.Y_haplogroup = truncate(r.Y_haplogroup),
                               !.mtDNA_haplogroup =
                                   truncate(r.mtDNA_haplogroup)]
        a1 == [i \in 1..Len(df) |-> asStr(df[i])]
        a2 == Filter(Filter(Filter(Filter(a1, keepY), keepMt), fullY), fullMt)
    IN  [i \in 1..Len(a2) |-> cut(a2[i])]

DotDot == <<".", ".">>

\* Lines 276-285: the two lineage tables, unknown codes removed.
split_Y(df) ==
    LET drop(r) == [idx |-> r.idx, Mean_BP |-> r.Mean_BP,
                    Country |-> r.Country, Lat |-> r.Lat, Long |-> r.Long,
                    haplogroup |-> r.Y_haplogroup, Age |-> r.Age]
        known(r) == r.haplogroup # DotDot
    IN  Filter([i \in 1..Len(df) |-> drop(df[i])], known)

split_mt(df) ==
    LET drop(r) == [idx |-> r.idx, Mean_BP |-> r.Mean_BP,
                    Country |-> r.Country, Lat |-> r.Lat, Long |-> r.Long,
                    haplogroup |-> r.mtDNA_haplogroup, Age |-> r.Age]
        known(r) == r.haplogroup # DotDot
    IN  Filter([i \in 1..Len(df) |-> drop(df[i])], known)

(***************************************************************************)
(* Era bins, lines 310-315, and the prefixes of lines 329-340.             *)
(***************************************************************************)
new_bp_ranges == <<1, 1000, 2000, 3000, 4000, 5000, 6000, 7000, 8000, 11000, 44500>>

bp_labels ==
    << <<"1", "-", "1", "0", "0", "0">>,
       <<"1", "0", "0", "1", "-", "2", "0", "0", "0">>,
       <<"2", "0", "0", "1", "-", "3", "0", "0", "0">>,
       <<"3", "0", "0", "1", "-", "4", "0", "0", "0">>,
       <<"4", "0", "0", "1", "-", "5", "0", "0", "0">>,
       <<"5", "0", "0", "1", "-", "6", "0", "0", "0">>,
       <<"6", "0", "0", "1", "-", "7", "0", "0", "0">>,
       <<"7", "0", "0", "1", "-", "8", "0", "0", "0">>,
       <<"8", "0", "0", "1", "-", "1", "1", "0", "0", "0">>,
       <<"1", "1", "0", "0", "1", "-", "4", "4", "5", "0", "0">> >>

\* pd.cut(x, bins=new_bp_ranges, labels=bp_labels, right=True): bin i is the
\* interval (bins[i], bins[i+1]], and a value in no bin gets nan.
pd_cut(x) ==
    LET hit == {i \in 1..Len(bp_labels) :
                    new_bp_ranges[i] < x /\ x <= new_bp_ranges[i + 1]}
    IN  IF hit = {} THEN NaN ELSE bp_labels[CHOOSE i \in hit : TRUE]

\* Lines 313-340 on one lineage table.
bin_and_prefix(df) ==
    LET ext(r) == [idx |-> r.idx, Mean_BP |-> r.Mean_BP,
                   Country |-> r.Country, Lat |-> r.Lat, Long |-> r.Long,
                   haplogroup |-> r.haplogroup, Age |-> r.Age,
                   BP_range |-> pd_cut(r.Mean_BP),
                   first_letter |-> Slice(r.haplogroup, 1),
                   first_two_letters |-> Slice(r.haplogroup, 2),
                   first_three_letters |-> Slice(r.haplogroup, 3),
                   first_five_letters |-> Slice(r.haplogroup, 5)]
    IN  [i \in 1..Len(df) |-> ext(df[i])]

(***************************************************************************)
(* Command line, lines 130-172.                                            *)
(***************************************************************************)
ScriptName == <<"haplogroup_visualization.py">>
FileName == <<"AADR Annotations 2025.xlsx">>
FlagY == <<"--cluster_Y">>
FlagMt == <<"--cluster_mt">>

\* len(sys.argv) above which line 131 rejects the run.
ArgvLimit == 6
DefaultY == 150
DefaultMt == 350
ClusterMin == 5
ClusterMax == 500

\* sys.argv[-1]; sys.argv[0] is the script.
last_arg(a) == IF a = <<>> THEN ScriptName ELSE a[Len(a)]

IsFlag(t) == t \in {FlagY, FlagMt}

\* parser.parse_args() on the tokens left: a flag takes the next token, which
\* must be there, be no flag and convert with int; any other token is a
\* positional, and exactly one positional (input_file) is accepted.  ok is
\* FALSE where argparse reports an error and raises SystemExit.
RECURSIVE parse_args(_, _, _)
parse_args(toks, ns, npos) ==
    IF toks = <<>> THEN [ok |-> npos = 1, ns |-> ns]
    ELSE IF IsFlag(Head(toks))
         THEN IF Len(toks) < 2 \/ IsFlag(toks[2]) \/ ~IsInt(toks[2])
              THEN [ok |-> FALSE, ns |-> ns]
              ELSE parse_args(SubSeq(toks, 3, Len(toks)),
                              IF Head(toks) = FlagY
                              THEN [ns EXCEPT !.cluster_Y = int(toks[2])]
                              ELSE [ns EXCEPT !.cluster_mt = int(toks[2])],
                              npos)
         ELSE parse_args(Tail(toks), ns, npos + 1)

Unparsed == [cluster_Y |-> 0, cluster_mt |-> 0]

in_range(k) == ClusterMin <= k /\ k <= ClusterMax

(***************************************************************************)
(* K-means, lines 378-396.                                                 *)
(***************************************************************************)
\* df[[Lat, Long]].drop_duplicates()
lat_long(df) == unique([i \in 1..Len(df) |-> <<df[i].Lat, df[i].Long>>])

\* The labels_ KMeans(n_clusters=k).fit may return for n points: one id in
\* 0..k-1 for each point.  scikit-learn promises neither that every id is
\* used nor which points share one.
labelings(n, k) ==
    LET free == Min(MaxFree, n)
    IN  { [i \in 1..n |-> IF i <= free THEN f[i] ELSE (i - 1) % k] :
              f \in [1..free -> 0..(k - 1)] }

(***************************************************************************)
(* One pass of a cluster loop, lines 405-432 and 454-481.                  *)
(***************************************************************************)
\* locs[locs["Cluster"] == c]
cluster_points(locs, labels, c) ==
    LET at(i) == IF labels[i] = c THEN <<locs[i]>> ELSE <<>>
        F[i \in 0..Len(locs)] == IF i = 0 THEN <<>> ELSE F[i - 1] \o at(i)
    IN  F[Len(locs)]

\* The subset, were the rows matched on Lat alone.
members_by_lat(df, points) ==
    LET inside(r) == \E j \in 1..Len(points) : points[j][1] = r.Lat
    IN  Filter(df, inside)

\* df[df[[Lat, Long]].apply(tuple, axis=1).isin(points)]
members(df, points) ==
    LET inside(r) == \E j \in 1..Len(points) : points[j] = <<r.Lat, r.Long>>
    IN  Filter(df, inside)

\* The sort key of lines 421 and 470: int(x.split('-')[0]).
lower_key(x) == int(split(x, "-")[1])

RECURSIVE insert_sorted(_, _)
insert_sorted(s, x) ==
    IF s = <<>> THEN <<x>>
    ELSE IF lower_key(s[Len(s)]) <= lower_key(x) THEN Append(s, x)
    ELSE Append(insert_sorted(SubSeq(s, 1, Len(s) - 1), x), s[Len(s)])

\* The labels left in their order of appearance, were the sort dropped.
unsorted(s) == s

\* sorted(values, key=lower_key): stable.
RECURSIVE sorted(_)
sorted(s) ==
    IF s = <<>> THEN <<>>
    ELSE insert_sorted(sorted(SubSeq(s, 1, Len(s) - 1)), s[Len(s)])

BP == <<" ", "B", "P">>

\* Lines 422-427.
range_text(ranges) ==
    LET cluster_first_bp == split(ranges[1], "-")[1]
        cluster_last_bp  == split(ranges[Len(ranges)], "-")[2]
    IN  IF cluster_first_bp = cluster_last_bp THEN ranges[1] \o BP
        ELSE cluster_first_bp \o <<"-">> \o cluster_last_bp \o BP

\* The count, were the pass to leave total_indivs as the pass before set it.
shape0_stale(df) == total_indivs

\* subset.shape[0]
shape0(df) == Len(df)

\* Lines 428-432.
countries_text(countries) ==
    IF Len(countries) < 2 THEN countries[1] ELSE join(countries, <<"<br>">>)

\* Lines 71-122: the popup of a cluster, its legend read from the
\* module-level names as they stand at the call.
create_Sunburst(subdataset) ==
    [sunburst |-> [i \in 1..Len(subdataset) |->
                      <<subdataset[i].first_letter,
                        subdataset[i].first_two_letters,
                        subdataset[i].first_three_letters,
                        subdataset[i].first_five_letters>>],
     popup_text |-> cluster_countries \o <<"<br>">> \o str(total_indivs)
                    \o <<" individuals<br>">> \o cluster_range]

(***************************************************************************)
(* Inputs.                                                                 *)
(***************************************************************************)
Row(bp, country, lat, long, y, mt) ==
    [Mean_BP |-> bp, Country |-> country, Lat |-> lat, Long |-> long,
     Y_haplogroup |-> y, mtDNA_haplogroup |-> mt]

\* pd.read_excel gives row i of the sheet the index label i - 1.
read_excel(rows) ==
    [i \in 1..Len(rows) |->
        [idx |-> i - 1, Mean_BP |-> rows[i].Mean_BP,
         Country |-> rows[i].Country, Lat |-> rows[i].Lat,
         Long |-> rows[i].Long, Y_haplogroup |-> rows[i].Y_haplogroup,
         mtDNA_haplogroup |-> rows[i].mtDNA_haplogroup]]

\* Five individuals at five places, valid in both lineages.
BaseRows ==
    << Row(2500, <<"Spain">>, Num(10001), Num(5001),
           <<"R", "1", "b">>, <<"H", "1">>),
       Row(500, <<"France">>, Num(10004), Num(6002),
           <<"I", "2", "a">>, <<"U", "5">>),
       Row(9000, <<"Gernamy">>, Num(20000), Num(5000),
           <<"G", "2", "~">>, <<"K", "1">>),
       Row(2500, <<"Turkey ">>, Num(30000), Num(5000),
           <<"J">>, <<"T", "2">>),
       Row(30000, <<"China">>, Num(40000), Num(5000),
           <<"C">>, <<"M">>) >>

\* A sixth individual: the first one again, or the same at a sixth place,
\* or either with one field changed.
Twin == BaseRows[1]
Apart == [Twin EXCEPT !.Lat = Num(50000), !.Long = Num(5000)]

AgeSamples == {0, 1, 2, 1000, 1001, 8000, 8001, 11000, 11001, 44500, 44501, 0 - 50}

YSamples ==
    { <<"n", "/", "a">>, NaN, DotDot, <<" ", "R">>, <<"~", "R">>, <<>>,
      <<" ">>, <<"o", "r">> }

MtSamples == { DotDot, <<"(", "H", ")">>, NaN, <<"n", "/", "a">> }

Variants(t) ==
    {t}
    \cup {[t EXCEPT !.Mean_BP = a] : a \in AgeSamples}
    \cup {[t EXCEPT !.Country = c] : c \in {<<"Portugal">>, <<"China ">>}}
    \cup {[t EXCEPT !.Y_haplogroup = y] : y \in YSamples}
    \cup {[t EXCEPT !.mtDNA_haplogroup = m] : m \in MtSamples}

SixthRows ==
    Variants(Twin) \cup Variants(Apart)
    \cup {[Twin EXCEPT !.Lat = Num(9996), !.Long = Num(4999)],
          [Twin EXCEPT !.Lat = DotDotCell],
          [Twin EXCEPT !.Long = NaNCell]}

Sheets ==
    {BaseRows} \cup {BaseRows \o <<r>> : r \in SixthRows}
               \cup {<<r>> \o BaseRows : r \in SixthRows}

\* python haplogroup_visualization.py --cluster_Y 5 --cluster_mt 5 "AADR ..."
UsualArgv == <<FlagY, <<"5">>, FlagMt, <<"5">>, FileName>>

Tokens ==
    { FileName, <<"other.xlsx">>, FlagY, FlagMt, <<"a", "b", "c">>,
      <<"4">>, <<"5">>, <<"5", "0", "0">>, <<"5", "0", "1">> }

\* Every command line of up to ArgvLimit tokens after the script's name.
CommandLines == UNION {[1..n -> Tokens] : n \in 0..ArgvLimit}

\* The alphabet of the code strings given to the truncation rule alone.
CodeSymbols == {"R", "1", "o", "~", " ", "\n", "."}

CodeStrings == UNION {[1..n -> CodeSymbols] : n \in 0..MaxLen}

Start(a, sheet, p) ==
    /\ pc = "argc"
    /\ argv = a
    /\ xlsx = sheet
    /\ annotations = <<>>
    /\ args = Unparsed
    /\ annotations_Y = <<>>
    /\ annotations_mt = <<>>
    /\ lat_long_locations_Y = <<>>
    /\ lat_long_locations_mt = <<>>
    /\ kmeans_Y = <<>>
    /\ kmeans_mt = <<>>
    /\ it = 0
    /\ cluster_id = 0 - 1
    /\ subset = <<>>
    /\ total_indivs = 0
    /\ bp_ranges = <<>>
    /\ cluster_range = <<>>
    /\ cluster_countries = <<>>
    /\ fg_Y = <<>>
    /\ fg_mt = <<>>
    /\ diag = ""
    /\ exit_status = 0 - 1
    /\ error = ""
    /\ map_html = FALSE
    /\ probe = p

\* probe lists a code string and its successive truncations; <<>> is none.
NoProbe == <<>>

\* The usual command line on every sheet.
Init == \E sheet \in Sheets : Start(UsualArgv, sheet, NoProbe)

\* Every command line on the five-row sheet.
InitArgs == \E a \in CommandLines : Start(a, BaseRows, NoProbe)

\* Every code string, ahead of the truncation rule.
InitClean ==
    \E s \in CodeStrings :
        Start(UsualArgv, BaseRows, <<s>>)

(***************************************************************************)
(* The script.                                                             *)
(***************************************************************************)
\* print(message); exit(): the built-in exit() with no argument raises
\* SystemExit(None), and the process ends with status 0.
Exit(message) ==
    /\ diag' = message
    /\ pc' = "exit"
    /\ exit_status' = 0

\* An uncaught exception: traceback, status 1.
Raise(exception) ==
    /\ error' = exception
    /\ pc' = "crashed"
    /\ exit_status' = 1

\* Lines 130-133.
CheckArgc ==
    /\ pc = "argc"
    /\ IF Len(argv) + 1 > ArgvLimit
       THEN Exit("Error: Too many arguments.")
       ELSE pc' = "file" /\ UNCHANGED <<diag, exit_status>>
    /\ UNCHANGED <<argv, xlsx, annotations, args, annotations_Y,
                   annotations_mt, lat_long_locations_Y,
                   lat_long_locations_mt, kmeans_Y, kmeans_mt, it,
                   cluster_id, subset, total_indivs, bp_ranges,
                   cluster_range, cluster_countries, fg_Y, fg_mt, error,
                   map_html, probe>>

\* The file check, were the spreadsheet read ahead of the comparison.
CheckFileName_reads_first ==
    /\ pc = "file"
    /\ annotations' = read_excel(xlsx)
    /\ IF last_arg(argv) = FileName
       THEN pc' = "parse" /\ UNCHANGED <<diag, exit_status>>
       ELSE Exit("Error: Please provide the correct file.")
    /\ UNCHANGED <<argv, xlsx, args, annotations_Y, annotations_mt,
                   lat_long_locations_Y, lat_long_locations_mt, kmeans_Y,
                   kmeans_mt, it, cluster_id, subset, total_indivs,
                   bp_ranges, cluster_range, cluster_countries, fg_Y, fg_mt,
                   error, map_html, probe>>

\* Lines 135-140.
CheckFileName ==
    /\ pc = "file"
    /\ IF last_arg(argv) = FileName
       THEN /\ annotations' = read_excel(xlsx)
            /\ pc' = "parse"
            /\ UNCHANGED <<diag, exit_status>>
       ELSE /\ Exit("Error: Please provide the correct file.")
            /\ UNCHANGED annotations
    /\ UNCHANGED <<argv, xlsx, args, annotations_Y, annotations_mt,
                   lat_long_locations_Y, lat_long_locations_mt, kmeans_Y,
                   kmeans_mt, it, cluster_id, subset, total_indivs,
                   bp_ranges, cluster_range, cluster_countries, fg_Y, fg_mt,
                   error, map_html, probe>>

\* Lines 148-163: the bare except catches argparse's SystemExit too.
ParseArgs ==
    /\ pc = "parse"
    /\ LET parsed == parse_args(argv, [cluster_Y |-> DefaultY,
                                        cluster_mt |-> DefaultMt], 0)
       IN  IF parsed.ok
           THEN /\ args' = parsed.ns
                /\ pc' = "range"
                /\ UNCHANGED <<diag, exit_status>>
           ELSE /\ Exit("Error: Please provide an integer between 5 and 500.")
                /\ UNCHANGED args
    /\ UNCHANGED <<argv, xlsx, annotations, annotations_Y, annotations_mt,
                   lat_long_locations_Y, lat_long_locations_mt, kmeans_Y,
                   kmeans_mt, it, cluster_id, subset, total_indivs,
                   bp_ranges, cluster_range, cluster_countries, fg_Y, fg_mt,
                   error, map_html, probe>>

\* Lines 165-172.
CheckRange ==
    /\ pc = "range"
    /\ IF ~in_range(args.cluster_Y)
       THEN Exit("Error: Cluster number for Y must be between 5 and 500.")
       ELSE IF ~in_range(args.cluster_mt)
       THEN Exit("Error: Cluster number for mt must be between 5 and 500.")
       ELSE pc' = "modify" /\ UNCHANGED <<diag, exit_status>>
    /\ UNCHANGED <<argv, xlsx, annotations, args, annotations_Y,
                   annotations_mt, lat_long_locations_Y,
                   lat_long_locations_mt, kmeans_Y, kmeans_mt, it,
                   cluster_id, subset, total_indivs, bp_ranges,
                   cluster_range, cluster_countries, fg_Y, fg_mt, error,
                   map_html, probe>>

\* Lines 178-255.
ModifyAnnotations ==
    /\ pc = "modify"
    /\ annotations' = modify(annotations)
    /\ pc' = "haplogroups"
    /\ UNCHANGED <<argv, xlsx, args, annotations_Y, annotations_mt,
                   lat_long_locations_Y, lat_long_locations_mt, kmeans_Y,
                   kmeans_mt, it, cluster_id, subset, total_indivs,
                   bp_ranges, cluster_range, cluster_countries, fg_Y, fg_mt,
                   diag, exit_status, error, map_html, probe>>

\* Lines 258-271.
CleanHaplogroups ==
    /\ pc = "haplogroups"
    /\ annotations' = clean_haplogroups(annotations)
    /\ pc' = "split"
    /\ UNCHANGED <<argv, xlsx, args, annotations_Y, annotations_mt,
                   lat_long_locations_Y, lat_long_locations_mt, kmeans_Y,
                   kmeans_mt, it, cluster_id, subset, total_indivs,
                   bp_ranges, cluster_range, cluster_countries, fg_Y, fg_mt,
                   diag, exit_status, error, map_html, probe>>

\* Lines 274-285.
SplitLineages ==
    /\ pc = "split"
    /\ annotations_Y' = split_Y(annotations)
    /\ annotations_mt' = split_mt(annotations)
    /\ pc' = "bins"
    /\ UNCHANGED <<argv, xlsx, annotations, args, lat_long_locations_Y,
                   lat_long_locations_mt, kmeans_Y, kmeans_mt, it,
                   cluster_id, subset, total_indivs, bp_ranges,
                   cluster_range, cluster_countries, fg_Y, fg_mt, diag,
                   exit_status, error, map_html, probe>>

\* Lines 310-340.
BinEras ==
    /\ pc = "bins"
    /\ annotations_Y' = bin_and_prefix(annotations_Y)
    /\ annotations_mt' = bin_and_prefix(annotations_mt)
    /\ pc' = "kmeans"
    /\ UNCHANGED <<argv, xlsx, annotations, args, lat_long_locations_Y,
                   lat_long_locations_mt, kmeans_Y, kmeans_mt, it,
                   cluster_id, subset, total_indivs, bp_ranges,
                   cluster_range, cluster_countries, fg_Y, fg_mt, diag,
                   exit_status, error, map_html, probe>>

\* Lines 376-396.  KMeans.fit raises ValueError when it is given fewer
\* points than clusters.
FitKMeans ==
    /\ pc = "kmeans"
    /\ lat_long_locations_Y' = lat_long(annotations_Y)
    /\ lat_long_locations_mt' = lat_long(annotations_mt)
    /\ LET nY  == Len(lat_long(annotations_Y))
           nMt == Len(lat_long(annotations_mt))
       IN  IF nY < args.cluster_Y
           THEN /\ Raise("ValueError")
                /\ UNCHANGED <<kmeans_Y, kmeans_mt>>
           ELSE /\ kmeans_Y' \in labelings(nY, args.cluster_Y)
                /\ IF nMt < args.cluster_mt
                   THEN /\ Raise("ValueError")
                        /\ UNCHANGED kmeans_mt
                   ELSE /\ kmeans_mt' \in labelings(nMt, args.cluster_mt)
                        /\ pc' = "loop_Y"
                        /\ UNCHANGED <<error, exit_status>>
    /\ UNCHANGED <<argv, xlsx, annotations, args, annotations_Y,
                   annotations_mt, it, cluster_id, subset, total_indivs,
                   bp_ranges, cluster_range, cluster_countries, fg_Y, fg_mt,
                   diag, map_html, probe>>

\* Lines 405-432 and 454-481: the cluster it of one lineage, up to the
\* call of create_Sunburst.  The sort key raises AttributeError on nan (a
\* float has no split), and bp_ranges[0] raises IndexError on an empty list.
Aggregate(df, locs, labels, popup_pc) ==
    LET points    == cluster_points(locs, labels, it)
        sub       == members(df, points)
        found     == unique([i \in 1..Len(sub) |-> sub[i].BP_range])
        countries == unique([i \in 1..Len(sub) |-> sub[i].Country])
    IN  /\ cluster_id' = it
        /\ subset' = sub
        /\ total_indivs' = shape0(sub)
        /\ IF \E i \in 1..Len(found) : found[i] = NaN
           THEN /\ bp_ranges' = found
                /\ Raise("AttributeError")
                /\ UNCHANGED <<cluster_range, cluster_countries>>
           ELSE IF found = <<>>
           THEN /\ bp_ranges' = <<>>
                /\ Raise("IndexError")
                /\ UNCHANGED <<cluster_range, cluster_countries>>
           ELSE /\ bp_ranges' = sorted(found)
                /\ cluster_range' = range_text(sorted(found))
                /\ cluster_countries' = countries_text(countries)
                /\ pc' = popup_pc
                /\ UNCHANGED <<error, exit_status>>
        /\ UNCHANGED <<argv, xlsx, annotations, args, annotations_Y,
                       annotations_mt, lat_long_locations_Y,
                       lat_long_locations_mt, kmeans_Y, kmeans_mt, it, fg_Y,
                       fg_mt, diag, map_html, probe>>

\* Lines 434-445 and 483-494: the marker of the cluster, then the next pass
\* of the loop or the code after it.
Marker == [popup |-> create_Sunburst(subset), tags |-> bp_ranges]

Advance(n, loop_pc, after_pc) ==
    /\ IF it + 1 < n
       THEN it' = it + 1 /\ pc' = loop_pc
       ELSE it' = 0 /\ pc' = after_pc
    /\ UNCHANGED <<argv, xlsx, annotations, args, annotations_Y,
                   annotations_mt, lat_long_locations_Y,
                   lat_long_locations_mt, kmeans_Y, kmeans_mt, cluster_id,
                   subset, total_indivs, bp_ranges, cluster_range,
                   cluster_countries, diag, exit_status, error, map_html,
                   probe>>

YAggregate ==
    /\ pc = "loop_Y"
    /\ Aggregate(annotations_Y, lat_long_locations_Y, kmeans_Y, "popup_Y")

YAddMarker ==
    /\ pc = "popup_Y"
    /\ fg_Y' = Append(fg_Y, Marker)
    /\ UNCHANGED fg_mt
    /\ Advance(args.cluster_Y, "loop_Y", "loop_mt")

MtAggregate ==
    /\ pc = "loop_mt"
    /\ Aggregate(annotations_mt, lat_long_locations_mt, kmeans_mt, "popup_mt")

MtAddMarker ==
    /\ pc = "popup_mt"
    /\ fg_mt' = Append(fg_mt, Marker)
    /\ UNCHANGED fg_Y
    /\ Advance(args.cluster_mt, "loop_mt", "save")

\* Lines 500-514.
SaveMap ==
    /\ pc = "save"
    /\ map_html' = TRUE
    /\ pc' = "done"
    /\ exit_status' = 0
    /\ UNCHANGED <<argv, xlsx, annotations, args, annotations_Y,
                   annotations_mt, lat_long_locations_Y,
                   lat_long_locations_mt, kmeans_Y, kmeans_mt, it,
                   cluster_id, subset, total_indivs, bp_ranges,
                   cluster_range, cluster_countries, fg_Y, fg_mt, diag,
                   error, probe>>

\* Lines 270-271 on one code string, applied again to its own result.
TruncateProbe ==
    /\ Len(probe) \in 1..2
    /\ probe' = Append(probe, truncate(probe[Len(probe)]))
    /\ UNCHANGED <<pc, argv, xlsx, annotations, args, annotations_Y,
                   annotations_mt, lat_long_locations_Y,
                   lat_long_locations_mt, kmeans_Y, kmeans_mt, it,
                   cluster_id, subset, total_indivs, bp_ranges,
                   cluster_range, cluster_countries, fg_Y, fg_mt, diag,
                   exit_status, error, map_html>>

Next ==
    \/ CheckArgc
    \/ CheckFileName
    \/ ParseArgs
    \/ CheckRange
    \/ ModifyAnnotations
    \/ CleanHaplogroups
    \/ SplitLineages
    \/ BinEras
    \/ FitKMeans
    \/ YAggregate
    \/ YAddMarker
    \/ MtAggregate
    \/ MtAddMarker
    \/ SaveMap

Spec == Init /\ [][Next]_vars

SpecArgs == InitArgs /\ [][Next]_vars

SpecClean == InitClean /\ [][TruncateProbe]_vars

(***************************************************************************)
(* Properties.                                                             *)
(***************************************************************************)
\* The lineage tables exist (lines 276-285 have run).
SplitDone ==
    pc \notin {"argc", "file", "parse", "range", "modify", "haplogroups",
               "split", "exit"}

\* The lineage tables carry their era bins (lines 313-315 have run).
Binned == SplitDone /\ pc # "bins"

Fitted == kmeans_Y # <<>> /\ kmeans_mt # <<>>

Labels == {bp_labels[j] : j \in 1..Len(bp_labels)}

EveryAgeBinned(df) ==
    \A i \in 1..Len(df) :
        IF 1 <= df[i].Mean_BP /\ df[i].Mean_BP <= 44500
        THEN df[i].BP_range \in Labels
        ELSE df[i].BP_range = NaN

\* C1: era binning is total on [1, 44500]: every row whose age-mean lies in
\* [1, 44500], the boundary values included, carries one of the ten labels,
\* and every row whose age-mean lies outside carries none.
C1_BinningTotalOn1To44500 ==
    Binned => EveryAgeBinned(annotations_Y) /\ EveryAgeBinned(annotations_mt)

IsPlaceholder(code) ==
    contains_placeholder(code) \/ code = DotDot \/ strip(code) = <<>>

SoundRows(df) ==
    \A i \in 1..Len(df) :
        /\ df[i].haplogroup # <<>>
        /\ ~IsPlaceholder(df[i].haplogroup)
        /\ df[i].Lat[1] = "num"
        /\ df[i].Long[1] = "num"

\* C2: after the whole filter pipeline every row of annotations_Y and of
\* annotations_mt has a code for its lineage that is non-empty and no
\* placeholder, and has Lat and Long; no code ends up as the empty string.
C2_LineageRowsSound ==
    SplitDone => SoundRows(annotations_Y) /\ SoundRows(annotations_mt)

\* The cluster id k-means gave the place of a row.
ClusterOf(r, locs, labels) ==
    labels[CHOOSE j \in 1..Len(locs) : locs[j] = <<r.Lat, r.Long>>]

RowsOf(df, locs, labels, c) ==
    {i \in 1..Len(df) : ClusterOf(df[i], locs, labels) = c}

\* The rows of df that members() puts in cluster c.
Picked(df, locs, labels, c) ==
    LET got == members(df, cluster_points(locs, labels, c))
    IN  {i \in 1..Len(df) : \E j \in 1..Len(got) : got[j].idx = df[i].idx}

RECURSIVE SumOfTotals(_, _, _, _)
SumOfTotals(df, locs, labels, k) ==
    IF k = 0 THEN 0
    ELSE SumOfTotals(df, locs, labels, k - 1)
         + Len(members(df, cluster_points(locs, labels, k - 1)))

Conserved(df, locs, labels, k) ==
    /\ \A c \in 0..(k - 1) :
           /\ Picked(df, locs, labels, c) = RowsOf(df, locs, labels, c)
           /\ Len(members(df, cluster_points(locs, labels, c)))
                  = Cardinality(RowsOf(df, locs, labels, c))
    /\ \A c, d \in 0..(k - 1) :
           c # d => Picked(df, locs, labels, c)
                        \cap Picked(df, locs, labels, d) = {}
    /\ SumOfTotals(df, locs, labels, k) = Len(df)

\* C3: for the labelling k-means returned, each cluster's total_indivs is
\* the number of rows of the lineage table whose (Lat, Long) is one of the
\* cluster's places, no row is counted in two clusters, and the totals of
\* the k clusters add up to the number of rows of the lineage table.
C3_AggregationConserves ==
    /\ Fitted =>
           /\ Conserved(annotations_Y, lat_long_locations_Y, kmeans_Y,
                        args.cluster_Y)
           /\ Conserved(annotations_mt, lat_long_locations_mt, kmeans_mt,
                        args.cluster_mt)
    /\ pc = "popup_Y" =>
           total_indivs = Cardinality(RowsOf(annotations_Y,
                              lat_long_locations_Y, kmeans_Y, cluster_id))
    /\ pc = "popup_mt" =>
           total_indivs = Cardinality(RowsOf(annotations_mt,
                              lat_long_locations_mt, kmeans_mt, cluster_id))

\* C3's case: a finished run in which one cluster holds rows of two places
\* and another holds two rows of one place.
C3_Witness ==
    /\ pc = "done"
    /\ Len(annotations_Y) = 6
    /\ Len(lat_long_locations_Y) = 5
    /\ \E c \in 1..Len(fg_Y) : Len(fg_Y[c].popup.sunburst) = 2

TooMany == "Error: Too many arguments."
WrongFile == "Error: Please provide the correct file."
NotInteger == "Error: Please provide an integer between 5 and 500."
RangeY == "Error: Cluster number for Y must be between 5 and 500."
RangeMt == "Error: Cluster number for mt must be between 5 and 500."

\* read_excel has run.
Loaded == annotations # <<>>

FitStarted ==
    \/ kmeans_Y # <<>>
    \/ kmeans_mt # <<>>
    \/ lat_long_locations_Y # <<>>
    \/ lat_long_locations_mt # <<>>

\* C4: every validation failure (too many tokens, wrong file name, no
\* integer after a cluster flag, cluster count outside [5, 500]) ends the
\* run with a non-zero exit status after its diagnostic, and map.html is
\* not written in that run.
C4_FailureExitsNonZero ==
    diag # "" => pc = "exit" /\ exit_status # 0 /\ ~map_html

\* A cluster flag is followed by a value that int() refuses.
NonIntegerAfterFlag(a) ==
    \E i \in 1..(Len(a) - 1) :
        IsFlag(a[i]) /\ ~IsFlag(a[i + 1]) /\ ~IsInt(a[i + 1])

\* C5 as the spec words it: a run that fails on its arguments alone (token
\* count, file name, no integer after a cluster flag) ends without the
\* spreadsheet having been read, and a run that fails on the range of a
\* cluster count ends before a k-means fit is started.
C5_ArgumentFailureBeforeLoad ==
    /\ diag \in {TooMany, WrongFile, NotInteger} => ~Loaded
    /\ diag \in {RangeY, RangeMt} => ~FitStarted

\* C5 as the code has it: the token-count and file-name failures end the
\* run before the spreadsheet is read; the failure argparse reports (no
\* integer after a cluster flag, or any other parse error) ends it after
\* the read of line 137 and before any processing of the rows; a cluster
\* count out of range ends it before a k-means fit is started.
C5_FailureOrder ==
    /\ diag \in {TooMany, WrongFile} => pc = "exit" /\ ~Loaded
    /\ diag = NotInteger =>
           /\ pc = "exit"
           /\ annotations = read_excel(xlsx)
           /\ args = Unparsed
           /\ ~FitStarted
    /\ diag \in {RangeY, RangeMt} =>
           /\ pc = "exit"
           /\ annotations = read_excel(xlsx)
           /\ ~FitStarted
    /\ pc = "exit" /\ NonIntegerAfterFlag(argv) /\ Loaded => diag = NotInteger

\* C5's case: the value after a cluster flag is no integer, the file name
\* is the expected one, and the run has ended with the rows read.
C5_Witness ==
    /\ pc = "exit"
    /\ diag = NotInteger
    /\ NonIntegerAfterFlag(argv)
    /\ Loaded

InTable(df, i) == \E k \in 1..Len(df) : df[k].idx = i - 1

CodeIn(df, i) == df[CHOOSE k \in 1..Len(df) : df[k].idx = i - 1].haplogroup

\* C6: whether a row is in the mt table, and its cleaned mt code, depend on
\* its coordinates, its age and its mt code alone, not on its Y code; and
\* the same for the Y table with the lineages exchanged.  Two rows of a
\* sheet that agree on all but the other lineage's code fare alike.
C6_LineagesIndependent ==
    SplitDone =>
        \A i, j \in 1..Len(xlsx) :
            /\ ( /\ xlsx[i].Lat = xlsx[j].Lat
                 /\ xlsx[i].Long = xlsx[j].Long
                 /\ xlsx[i].Mean_BP = xlsx[j].Mean_BP
                 /\ xlsx[i].mtDNA_haplogroup = xlsx[j].mtDNA_haplogroup )
               => /\ InTable(annotations_mt, i) <=> InTable(annotations_mt, j)
                  /\ InTable(annotations_mt, i) =>
                         CodeIn(annotations_mt, i) = CodeIn(annotations_mt, j)
            /\ ( /\ xlsx[i].Lat = xlsx[j].Lat
                 /\ xlsx[i].Long = xlsx[j].Long
                 /\ xlsx[i].Mean_BP = xlsx[j].Mean_BP
                 /\ xlsx[i].Y_haplogroup = xlsx[j].Y_haplogroup )
               => /\ InTable(annotations_Y, i) <=> InTable(annotations_Y, j)
                  /\ InTable(annotations_Y, i) =>
                         CodeIn(annotations_Y, i) = CodeIn(annotations_Y, j)

\* The part of s ahead of its first cut-off character.
RECURSIVE BeforeCut(_)
BeforeCut(s) ==
    IF s = <<>> \/ Head(s) \in CutChars THEN <<>>
    ELSE <<Head(s)>> \o BeforeCut(Tail(s))

\* C7: the truncation is idempotent: the cleaned string is the part of the
\* code ahead of its first cut-off character (+ / ( ) ' ~ @ - o r or white
\* space), it holds no cut-off character, and cleaning it again gives it
\* back.
C7_TruncationIdempotent ==
    /\ Len(probe) >= 2 =>
           /\ probe[2] = BeforeCut(probe[1])
           /\ \A i \in 1..Len(probe[2]) : probe[2][i] \notin CutChars
    /\ Len(probe) = 3 => probe[3] = probe[2]

\* C7's case: a code with a cut-off character, a line break after it, and
\* something ahead of it, cleaned twice.
C7_Witness ==
    /\ Len(probe) = 3
    /\ probe[1] = <<"R", "~", "\n">>
    /\ probe[2] = <<"R">>

BinOf(label) == CHOOSE j \in 1..Len(bp_labels) : bp_labels[j] = label

BinsIn(df) == {BinOf(df[i].BP_range) : i \in 1..Len(df)}

Least(S) == CHOOSE x \in S : \A y \in S : x <= y
Most(S) == CHOOSE x \in S : \A y \in S : y <= x

\* The bounds a bin's label names: bin j covers LowerOf(j)..UpperOf(j).
LowerOf(j) == IF j = 1 THEN new_bp_ranges[1] ELSE new_bp_ranges[j] + 1
UpperOf(j) == new_bp_ranges[j + 1]

MergedRange(df) ==
    IF Cardinality(BinsIn(df)) = 1
    THEN bp_labels[Least(BinsIn(df))] \o <<" ", "B", "P">>
    ELSE str(LowerOf(Least(BinsIn(df)))) \o <<"-">>
         \o str(UpperOf(Most(BinsIn(df)))) \o <<" ", "B", "P">>

\* C9: the range of a cluster is "{lower of its earliest bin}-{upper of its
\* latest bin} BP", and "{bin} BP" when all its rows are in one bin; it
\* depends on the set of bins present alone, not on the order of the rows.
C9_MergedRange ==
    pc \in {"popup_Y", "popup_mt"} =>
        /\ cluster_range = MergedRange(subset)
        /\ {bp_ranges[i] : i \in 1..Len(bp_ranges)}
               = {bp_labels[j] : j \in BinsIn(subset)}
        /\ \A i \in 1..(Len(bp_ranges) - 1) :
               BinOf(bp_ranges[i]) < BinOf(bp_ranges[i + 1])

\* C9's case: a cluster whose first row is in a later bin than its second.
C9_Witness ==
    /\ pc = "popup_Y"
    /\ Len(subset) = 2
    /\ BinOf(subset[1].BP_range) > BinOf(subset[2].BP_range)

\* The rows of the running pass's cluster.
RowsNow ==
    IF pc = "popup_Y"
    THEN members(annotations_Y,
                 cluster_points(lat_long_locations_Y, kmeans_Y, cluster_id))
    ELSE members(annotations_mt,
                 cluster_points(lat_long_locations_mt, kmeans_mt, cluster_id))

CountriesOf(df) == unique([i \in 1..Len(df) |-> df[i].Country])

RangesOf(df) == sorted(unique([i \in 1..Len(df) |-> df[i].BP_range]))

Legend(df) ==
    countries_text(CountriesOf(df)) \o <<"<br>">> \o str(Len(df))
    \o <<" individuals<br>">> \o range_text(RangesOf(df))

LegendsFresh(fg, df, locs, labels) ==
    \A c \in 1..Len(fg) :
        fg[c].popup.popup_text
            = Legend(members(df, cluster_points(locs, labels, c - 1)))

\* C10: at every call of create_Sunburst, in both loops, cluster_countries,
\* total_indivs and cluster_range hold what the same pass computed from its
\* own subset, and so does the legend of every popup made.
C10_NoStaleLegend ==
    /\ pc \in {"popup_Y", "popup_mt"} =>
           /\ subset = RowsNow
           /\ total_indivs = Len(subset)
           /\ cluster_countries = countries_text(CountriesOf(subset))
           /\ cluster_range = range_text(RangesOf(subset))
    /\ LegendsFresh(fg_Y, annotations_Y, lat_long_locations_Y, kmeans_Y)
    /\ LegendsFresh(fg_mt, annotations_mt, lat_long_locations_mt, kmeans_mt)

\* C10's case: a pass of the mt loop whose cluster differs from the one
\* before it in its number of rows, its country and its range.
C10_Witness ==
    /\ pc = "popup_mt"
    /\ cluster_id >= 1
    /\ Len(fg_mt) = cluster_id
    /\ total_indivs = 2
    /\ Len(fg_mt[cluster_id].popup.sunburst) = 1
    /\ fg_mt[cluster_id].popup.popup_text # Legend(subset)

\* A row of the running pass's cluster carries no era label.
UnbinnedMember == \E i \in 1..Len(subset) : subset[i].BP_range = NaN

\* C11: rows without an era label do not abort aggregation: the pass of a
\* cluster that has rows, one of them with an age-mean outside the bins,
\* never fails in the sort of its labels (no AttributeError from the sort
\* key on an absent label), so the run goes on to its marker.
C11_UnbinnedDoesNotAbort ==
    ~(/\ pc = "crashed"
      /\ error = "AttributeError"
      /\ subset # <<>>
      /\ UnbinnedMember)

====
